---- MODULE Spec2Model ----
(***************************************************************************)
(* Retrieval-augmented query pipeline of AI_RAG_Agent.                     *)
(*                                                                         *)
(*   rag-embedding-service/app/main.py      POST /embed                    *)
(*   rag-logic/app/services/embedding.py    get_embedding                  *)
(*   rag-logic/app/services/query_service.py                               *)
(*                        fetch_similar_files_pgvector, run_query_pipeline *)
(*   rag-logic/app/services/retriever.py    fetch_similar_files_pgvector   *)
(*   rag-logic/app/db/vector_search.py      find_similar_files             *)
(*   rag-logic/app/routes/file_routes.py    query_route                    *)
(*   rag-logic/app/services/file_operations.py   the file operations       *)
(*   rag-logic/app/db/session.py, services/llm_chain.py   engine, llm      *)
(*                                                                         *)
(* Texts (prompts, filenames, contents, answers) are sequences of          *)
(* characters, so that concatenation and emptiness are what the code       *)
(* computes.                                                               *)
(***************************************************************************)
EXTENDS Integers, Sequences, FiniteSets, TLC

VARIABLES corpus, pc, prompt, embedding, files, context, answer, response,
          trace, exc, embedResp, encodeCalls, fetched, fileResp, loop, reqs

vars == <<corpus, pc, prompt, embedding, files, context, answer, response,
          trace, exc, embedResp, encodeCalls, fetched, fileResp, loop, reqs>>

(* the file operations and the event loop with its request handlers *)
auxVars == <<fileResp, loop, reqs>>

pipelineVars == <<pc, prompt, embedding, files, context, answer, response,
                  trace, exc, embedResp, encodeCalls>>

-----------------------------------------------------------------------------
(* Bounds of the model *)

MaxFiles == 2

MaxK == 2

(* Program constants *)

D == 384

DefaultTopK == 5

-----------------------------------------------------------------------------
(* Vectors and the cosine distance operator <=> of the SQL text.          *)
(* A vector is kept as its length and its leading components; all the     *)
(* components after the head are zero.                                     *)

Vec(a, b, n) == [dim |-> n, head |-> <<a, b>>]

RECURSIVE DotUpTo(_, _, _)
DotUpTo(u, v, n) ==
    IF n = 0 THEN 0 ELSE u.head[n] * v.head[n] + DotUpTo(u, v, n - 1)

Dot(u, v) == DotUpTo(u, v, Len(u.head))

(* 1 - dot/sqrt(nn), kept exact as the pair (dot, nn), nn = |u|^2 |v|^2 > 0 *)
CosineDistance(u, v) == [dot |-> Dot(u, v), nn |-> Dot(u, u) * Dot(v, v)]

(* d1 <= d2 for two cosine distances, i.e. cos1 >= cos2 *)
DistLeq(d1, d2) ==
    IF d1.dot >= 0 /\ d2.dot < 0 THEN TRUE
    ELSE IF d1.dot < 0 /\ d2.dot >= 0 THEN FALSE
    ELSE IF d1.dot >= 0
         THEN d1.dot * d1.dot * d2.nn >= d2.dot * d2.dot * d1.nn
         ELSE d1.dot * d1.dot * d2.nn <= d2.dot * d2.dot * d1.nn

DistEq(d1, d2) == DistLeq(d1, d2) /\ DistLeq(d2, d1)

DistLt(d1, d2) == ~DistLeq(d2, d1)

-----------------------------------------------------------------------------
(* Input sets *)

Prompts == { <<>>, <<" ">>, <<"q">> }

(* documents offered for ingestion: filename and extracted text *)
Docs == { [filename |-> <<"a">>, content |-> <<"x">>],
          [filename |-> <<"b">>, content |-> <<"y", "\n", "\n", "z">>],
          [filename |-> <<"c">>, content |-> <<>>] }

StoreVecs == { Vec(1, 0, D), Vec(0, 1, D) }

QueryVecs == { Vec(1, 0, D), Vec(1, 1, D), Vec(1, 0, 5) }

Answers == { <<>>, <<"t">> }

NoVec == [dim |-> 0, head |-> <<0, 0>>]

NoResponse == [status |-> 0]

NoFetch == [helper |-> "none", q |-> NoVec, k |-> 0, up |-> TRUE,
            status |-> "none", rows |-> <<>>]

NoFileResp == [op |-> "none", suffix |-> "", backend |-> 0, raised |-> 0,
               status |-> 0, calls |-> <<>>]

(* two requests in one server process *)
Reqs == {1, 2}

NoReq == [pc |-> "none", prompt |-> <<>>, embedded |-> NoResponse,
          files |-> <<>>, answer |-> <<>>, status |-> 0]

Min(a, b) == IF a <= b THEN a ELSE b

-----------------------------------------------------------------------------
(* rag-embedding-service: POST /embed *)

(* outcomes of model.encode: an exception, or a vector *)
EncodeOutcomes ==
    { [raised |-> TRUE, vec |-> NoVec] } \cup
    { [raised |-> FALSE, vec |-> v] : v \in QueryVecs }

IsBlank(text) == \A i \in 1..Len(text) : text[i] = " "

(* variant: the text is stripped before the emptiness test *)
embed_Strip(text, enc) ==
    IF IsBlank(text)
    THEN [status |-> 400, detail |-> "No text provided", calls |-> 0]
    ELSE IF enc.raised
         THEN [status |-> 500, detail |-> "Internal Server Error", calls |-> 1]
         ELSE [status |-> 200, embedding |-> enc.vec, calls |-> 1]

(* embed(req): the response, and how often model.encode was called *)
embed(text, enc) ==
    IF text = <<>>
    THEN [status |-> 400, detail |-> "No text provided", calls |-> 0]
    ELSE IF enc.raised
         THEN [status |-> 500, detail |-> "Internal Server Error", calls |-> 1]
         ELSE [status |-> 200, embedding |-> enc.vec, calls |-> 1]

-----------------------------------------------------------------------------
(* The files table and the similarity query *)

Range(s) == { s[i] : i \in 1..Len(s) }

StoredNames == { corpus[i].filename : i \in 1..Len(corpus) }

Perms(n) == { p \in [1..n -> 1..n] : \A i, j \in 1..n : i # j => p[i] # p[j] }

(* FileData(filename=row[0], content=row[1], similarity=row[2]) *)
FileData(rec, q) ==
    [filename |-> rec.filename, content |-> rec.content,
     similarity |-> CosineDistance(rec.embedding, q)]

(* variant: ORDER BY ... DESC, the farthest rows first *)
SelectOrderByLimit_Desc(table, q, top_k) ==
    LET n == Len(table)
        dist == [i \in 1..n |-> CosineDistance(table[i].embedding, q)]
        sorted == { p \in Perms(n) :
                      \A i, j \in 1..n : i < j => DistLeq(dist[p[j]], dist[p[i]]) }
    IN  { [i \in 1..Min(top_k, n) |-> FileData(table[p[i]], q)] : p \in sorted }

(* SELECT filename, content, embedding <=> q AS similarity FROM files       *)
(* ORDER BY embedding <=> q LIMIT top_k: every row of the table, in any of  *)
(* the orders that ascend by distance (SQL leaves the order of rows with    *)
(* equal sort keys unspecified), cut to the first top_k.                    *)
SelectOrderByLimit(table, q, top_k) ==
    LET n == Len(table)
        dist == [i \in 1..n |-> CosineDistance(table[i].embedding, q)]
        sorted == { p \in Perms(n) :
                      \A i, j \in 1..n : i < j => DistLeq(dist[p[i]], dist[p[j]]) }
    IN  { [i \in 1..Min(top_k, n) |-> FileData(table[p[i]], q)] : p \in sorted }

(* the <=> operator raises "different vector dimensions" on the first row   *)
(* whose embedding has another length than the query vector; with no row    *)
(* the operator is never evaluated                                          *)
DimensionError(table, q) ==
    \E i \in 1..Len(table) : table[i].embedding.dim # q.dim

-----------------------------------------------------------------------------
(* Context assembly and the prompt template *)

RECURSIVE join(_, _)
join(sep, items) ==
    IF items = <<>> THEN <<>>
    ELSE IF Len(items) = 1 THEN items[1]
    ELSE items[1] \o sep \o join(sep, Tail(items))

(* f"{f.filename}:\n{f.content}" *)
Render(f) == f.filename \o <<":", "\n">> \o f.content

(* variant: the entries are joined farthest-first *)
AssembleContext_Reversed(fs) ==
    join(<<"\n", "\n">>, [i \in 1..Len(fs) |-> Render(fs[Len(fs) + 1 - i])])

(* "\n\n".join(f"{f.filename}:\n{f.content}" for f in files) *)
AssembleContext(fs) == join(<<"\n", "\n">>, [i \in 1..Len(fs) |-> Render(fs[i])])

(* qa_template with {context} and {question} filled in; the fixed          *)
(* instruction text is one token                                           *)
qa_template(ctx, question) ==
    <<"<rules>", "Context:", "\n">> \o ctx \o
    <<"\n", "\n", "Question:", "\n">> \o question \o
    <<"\n", "\n", "Answer:">>

-----------------------------------------------------------------------------
(* Initial state: empty table, no request in flight *)

Init ==
    /\ corpus = <<>>
    /\ pc = "idle"
    /\ prompt = <<>>
    /\ embedding = NoVec
    /\ files = <<>>
    /\ context = <<>>
    /\ answer = <<>>
    /\ response = NoResponse
    /\ trace = <<>>
    /\ exc = "none"
    /\ embedResp = NoResponse
    /\ encodeCalls = 0
    /\ fetched = NoFetch
    /\ fileResp = NoFileResp
    /\ loop = 0
    /\ reqs = [r \in Reqs |-> NoReq]

-----------------------------------------------------------------------------
(* Document backend: create, soft-delete, restore *)

Ingest(doc, emb) ==
    /\ Len(corpus) < MaxFiles
    /\ doc.filename \notin StoredNames
    /\ corpus' = Append(corpus, [filename |-> doc.filename, content |-> doc.content,
                                 embedding |-> emb, deleted |-> FALSE])
    /\ UNCHANGED <<pipelineVars, fetched, auxVars>>

SoftDelete(i) ==
    /\ i \in 1..Len(corpus)
    /\ ~corpus[i].deleted
    /\ corpus' = [corpus EXCEPT ![i].deleted = TRUE]
    /\ UNCHANGED <<pipelineVars, fetched, auxVars>>

Restore(i) ==
    /\ i \in 1..Len(corpus)
    /\ corpus[i].deleted
    /\ corpus' = [corpus EXCEPT ![i].deleted = FALSE]
    /\ UNCHANGED <<pipelineVars, fetched, auxVars>>

-----------------------------------------------------------------------------
(* query_route / run_query_pipeline *)

(* variant: the route catches the exception and answers with what the      *)
(* pipeline has so far                                                      *)
Unhandled_Partial(e) ==
    /\ pc' = "failed"
    /\ exc' = e
    /\ response' = [status |-> 200, matches |-> files, answer |-> <<>>]

(* an exception that leaves query_route unhandled: the framework answers    *)
(* 500 Internal Server Error                                                *)
Unhandled(e) ==
    /\ pc' = "failed"
    /\ exc' = e
    /\ response' = [status |-> 500, detail |-> "Internal Server Error"]

(* POST /file/query with req.prompt = p *)
Start(p) ==
    /\ pc \in {"idle", "done", "failed"}
    /\ pc' = "embed"
    /\ prompt' = p
    /\ embedding' = NoVec
    /\ files' = <<>>
    /\ context' = <<>>
    /\ answer' = <<>>
    /\ response' = NoResponse
    /\ trace' = <<>>
    /\ exc' = "none"
    /\ embedResp' = NoResponse
    /\ encodeCalls' = 0
    /\ UNCHANGED <<corpus, fetched, auxVars>>

(* embedding = await get_embedding(prompt) *)
GetEmbedding(reachable, enc) ==
    /\ pc = "embed"
    /\ trace' = Append(trace, [stage |-> "embed", arg |-> prompt])
    /\ IF ~reachable
       THEN /\ Unhandled("ConnectError")
            /\ UNCHANGED <<embedding, embedResp, encodeCalls>>
       ELSE LET r == embed(prompt, enc) IN
            /\ embedResp' = r
            /\ encodeCalls' = encodeCalls + r.calls
            /\ IF r.status # 200
               THEN /\ Unhandled("HTTPStatusError")
                    /\ UNCHANGED embedding
               ELSE /\ embedding' = r.embedding
                    /\ pc' = "search"
                    /\ UNCHANGED <<exc, response>>
    /\ UNCHANGED <<corpus, prompt, files, context, answer, fetched, auxVars>>

(* variant: the search also writes the query vector into the stored rows   *)
FetchSimilar_Writes(up) ==
    /\ pc = "search"
    /\ trace' = Append(trace, [stage |-> "search", arg |-> embedding])
    /\ IF ~up
       THEN /\ Unhandled("OperationalError")
            /\ UNCHANGED <<files, corpus>>
       ELSE IF DimensionError(corpus, embedding)
       THEN /\ Unhandled("DataError")
            /\ UNCHANGED <<files, corpus>>
       ELSE /\ files' \in SelectOrderByLimit(corpus, embedding, DefaultTopK)
            /\ corpus' = [i \in 1..Len(corpus) |->
                             [corpus[i] EXCEPT !.embedding = embedding]]
            /\ pc' = "assemble"
            /\ UNCHANGED <<exc, response>>
    /\ UNCHANGED <<prompt, embedding, context, answer, embedResp,
                   encodeCalls, fetched, auxVars>>

(* variant: the search is run on a vector of its own instead of the one    *)
(* the embed stage returned                                                 *)
FetchSimilar_OwnVector(up) ==
    /\ pc = "search"
    /\ trace' = Append(trace, [stage |-> "search", arg |-> Vec(0, 1, D)])
    /\ IF ~up
       THEN /\ Unhandled("OperationalError")
            /\ UNCHANGED files
       ELSE IF DimensionError(corpus, Vec(0, 1, D))
       THEN /\ Unhandled("DataError")
            /\ UNCHANGED files
       ELSE /\ files' \in SelectOrderByLimit(corpus, Vec(0, 1, D), DefaultTopK)
            /\ pc' = "assemble"
            /\ UNCHANGED <<exc, response>>
    /\ UNCHANGED <<corpus, prompt, embedding, context, answer, embedResp,
                   encodeCalls, fetched, auxVars>>

(* files = await fetch_similar_files_pgvector(embedding, db) *)
FetchSimilar(up) ==
    /\ pc = "search"
    /\ trace' = Append(trace, [stage |-> "search", arg |-> embedding])
    /\ IF ~up
       THEN /\ Unhandled("OperationalError")
            /\ UNCHANGED files
       ELSE IF DimensionError(corpus, embedding)
       THEN /\ Unhandled("DataError")
            /\ UNCHANGED files
       ELSE /\ files' \in SelectOrderByLimit(corpus, embedding, DefaultTopK)
            /\ pc' = "assemble"
            /\ UNCHANGED <<exc, response>>
    /\ UNCHANGED <<corpus, prompt, embedding, context, answer, embedResp,
                   encodeCalls, fetched, auxVars>>

(* context = "\n\n".join(...) *)
Assemble ==
    /\ pc = "assemble"
    /\ trace' = Append(trace, [stage |-> "assemble", arg |-> files])
    /\ context' = AssembleContext(files)
    /\ pc' = "generate"
    /\ UNCHANGED <<corpus, prompt, embedding, files, answer, response, exc,
                   embedResp, encodeCalls, fetched, auxVars>>

(* variant: with an empty context the answer is made up locally and the     *)
(* language model is not called                                             *)
Generate_ShortCircuit(up, text) ==
    /\ pc = "generate"
    /\ IF context = <<>>
       THEN /\ answer' = <<"n", "o">>
            /\ pc' = "done"
            /\ response' = [status |-> 200, matches |-> files,
                            answer |-> <<"n", "o">>]
            /\ UNCHANGED <<exc, trace>>
       ELSE /\ trace' = Append(trace, [stage |-> "llm",
                               arg |-> [context |-> context, question |-> prompt,
                                        text |-> qa_template(context, prompt)]])
            /\ IF ~up
               THEN /\ Unhandled("LLMConnectError")
                    /\ UNCHANGED answer
               ELSE /\ answer' = text
                    /\ pc' = "done"
                    /\ response' = [status |-> 200, matches |-> files,
                                    answer |-> text]
                    /\ UNCHANGED exc
    /\ UNCHANGED <<corpus, prompt, embedding, files, context, embedResp,
                   encodeCalls, fetched, auxVars>>

(* answer = chain.invoke({"context": context, "question": prompt});         *)
(* return files, answer; QueryResponse(matches=files, answer=answer)        *)
Generate(up, text) ==
    /\ pc = "generate"
    /\ trace' = Append(trace, [stage |-> "llm",
                               arg |-> [context |-> context, question |-> prompt,
                                        text |-> qa_template(context, prompt)]])
    /\ IF ~up
       THEN /\ Unhandled("LLMConnectError")
            /\ UNCHANGED answer
       ELSE /\ answer' = text
            /\ pc' = "done"
            /\ response' = [status |-> 200, matches |-> files, answer |-> text]
            /\ UNCHANGED exc
    /\ UNCHANGED <<corpus, prompt, embedding, files, context, embedResp,
                   encodeCalls, fetched, auxVars>>

Next ==
    \/ \E doc \in Docs, emb \in StoreVecs : Ingest(doc, emb)
    \/ \E i \in 1..MaxFiles : SoftDelete(i)
    \/ \E i \in 1..MaxFiles : Restore(i)
    \/ \E p \in Prompts : Start(p)
    \/ \E r \in BOOLEAN, enc \in EncodeOutcomes : GetEmbedding(r, enc)
    \/ \E up \in BOOLEAN : FetchSimilar(up)
    \/ Assemble
    \/ \E up \in BOOLEAN, t \in Answers : Generate(up, t)

Spec == Init /\ [][Next]_vars

-----------------------------------------------------------------------------
(* The retrieval helpers called on their own, against a fixed table *)

Records ==
    { [filename |-> doc.filename, content |-> doc.content,
       embedding |-> emb, deleted |-> del] :
        doc \in Docs, emb \in StoreVecs, del \in BOOLEAN }

(* the tables the backend can hold: filename is the primary key *)
Tables ==
    UNION { { t \in [1..n -> Records] :
                \A i, j \in 1..n : i # j => t[i].filename # t[j].filename } :
            n \in 0..MaxFiles }

(* one call of a helper: on a lost connection or a dimension error the    *)
(* exception of db.execute propagates, otherwise the rows come back        *)
CallFetch(helper, q, k, up) ==
    /\ pc = "idle"
    /\ IF ~up
       THEN fetched' = [helper |-> helper, q |-> q, k |-> k, up |-> up,
                        status |-> "OperationalError", rows |-> <<>>]
       ELSE IF DimensionError(corpus, q)
       THEN fetched' = [helper |-> helper, q |-> q, k |-> k, up |-> up,
                        status |-> "DataError", rows |-> <<>>]
       ELSE \E rows \in SelectOrderByLimit(corpus, q, k) :
              fetched' = [helper |-> helper, q |-> q, k |-> k, up |-> up,
                          status |-> "ok", rows |-> rows]
    /\ UNCHANGED <<corpus, pipelineVars, auxVars>>

(* query_service.fetch_similar_files_pgvector(embedding, db, top_k) *)
FetchQueryService(q, k, up) == CallFetch("query_service", q, k, up)

(* retriever.fetch_similar_files_pgvector(embedding, db, top_k) *)
FetchRetriever(q, k, up) == CallFetch("retriever", q, k, up)

(* vector_search.find_similar_files(prompt, top_k): the module imports     *)
(* embed_prompt from app.services.embedding, which defines no such name,   *)
(* so the import raises before the function can be called                  *)
FindSimilarFiles(p, k) ==
    /\ pc = "idle"
    /\ fetched' = [helper |-> "vector_search", q |-> NoVec, k |-> k, up |-> TRUE,
                   status |-> "ImportError", rows |-> <<>>]
    /\ UNCHANGED <<corpus, pipelineVars, auxVars>>

InitFetch ==
    /\ corpus \in Tables
    /\ pc = "idle"
    /\ prompt = <<>>
    /\ embedding = NoVec
    /\ files = <<>>
    /\ context = <<>>
    /\ answer = <<>>
    /\ response = NoResponse
    /\ trace = <<>>
    /\ exc = "none"
    /\ embedResp = NoResponse
    /\ encodeCalls = 0
    /\ fetched = NoFetch
    /\ fileResp = NoFileResp
    /\ loop = 0
    /\ reqs = [r \in Reqs |-> NoReq]

NextFetch ==
    \/ \E q \in QueryVecs, k \in 1..MaxK, up \in BOOLEAN : FetchQueryService(q, k, up)
    \/ \E q \in QueryVecs, k \in 1..MaxK, up \in BOOLEAN : FetchRetriever(q, k, up)
    \/ \E p \in Prompts, k \in 1..MaxK : FindSimilarFiles(p, k)

SpecFetch == InitFetch /\ [][NextFetch]_vars

-----------------------------------------------------------------------------
(* Properties of the query pipeline *)

StageOrder == <<"embed", "search", "assemble", "llm">>

StageCount(s) == Cardinality({ i \in 1..Len(trace) : trace[i].stage = s })

(* the stages invoked so far are the first stages of StageOrder, in order *)
InOrder == /\ Len(trace) <= Len(StageOrder)
           /\ \A i \in 1..Len(trace) : trace[i].stage = StageOrder[i]

(* the stage whose call raised e *)
FailedStage(e) ==
    CASE e \in {"ConnectError", "HTTPStatusError"} -> "embed"
      [] e \in {"OperationalError", "DataError"} -> "search"
      [] e = "LLMConnectError" -> "llm"
      [] OTHER -> "none"

IsError(r) == r.status >= 400 /\ DOMAIN r = {"status", "detail"}

IsComplete(r) == r.status = 200 /\ DOMAIN r = {"status", "matches", "answer"}

(* C1: a failing stage ends the invocation in an explicit error: the stage *)
(* that raised is the last one invoked, no stage is invoked twice, and the *)
(* caller gets either an error without matches and answer, or a complete   *)
(* result of an invocation in which no stage raised.                       *)
C1_FailFast ==
    /\ \A i \in 1..Len(StageOrder) : StageCount(StageOrder[i]) <= 1
    /\ exc # "none" =>
          /\ pc = "failed"
          /\ trace # <<>>
          /\ trace[Len(trace)].stage = FailedStage(exc)
          /\ IsError(response)
    /\ pc = "failed" => exc # "none"
    /\ response # NoResponse =>
          \/ IsError(response) /\ exc # "none"
          \/ /\ IsComplete(response)
             /\ exc = "none"
             /\ pc = "done"
             /\ Len(trace) = Len(StageOrder)
             /\ response.matches = files
             /\ response.answer = answer

(* the language model fails after matches were found: the matches are not  *)
(* handed to the caller                                                    *)
C1_Witness ==
    /\ pc = "failed"
    /\ exc = "LLMConnectError"
    /\ files # <<>>
    /\ IsError(response)

(* C2: the stages run in the order embed, search, assemble, llm, each at   *)
(* most once and only after the one before it has returned, and each is    *)
(* given what the one before it returned: the search the vector of the     *)
(* embedding response, the assembler the rows of the search, the language  *)
(* model the assembled context and the prompt of the request.              *)
C2_StrictOrder ==
    /\ InOrder
    /\ pc = "embed" => Len(trace) = 0
    /\ pc = "search" => Len(trace) = 1
    /\ pc = "assemble" => Len(trace) = 2
    /\ pc = "generate" => Len(trace) = 3
    /\ pc = "done" => Len(trace) = 4
    /\ Len(trace) >= 1 => trace[1].arg = prompt
    /\ Len(trace) >= 2 =>
          /\ embedResp.status = 200
          /\ trace[2].arg = embedResp.embedding
    /\ Len(trace) >= 3 =>
          /\ trace[3].arg = files
    /\ Len(trace) >= 4 =>
          /\ trace[4].arg.context = context
          /\ trace[4].arg.context = AssembleContext(trace[3].arg)
          /\ trace[4].arg.question = prompt
          /\ trace[4].arg.text = qa_template(context, prompt)

C2_Witness ==
    /\ pc = "done"
    /\ Len(files) = 2
    /\ Len(trace) = 4

-----------------------------------------------------------------------------
(* Properties of the similarity query *)

IsDeleted(name) ==
    \E j \in 1..Len(corpus) : corpus[j].filename = name /\ corpus[j].deleted

(* C3: the rows the similarity query of the pipeline returns contain no    *)
(* record that is marked deleted at the time of the query.                 *)
C3_NoDeletedMatches ==
    [][ (pc = "search" /\ pc' = "assemble") =>
           \A i \in 1..Len(files') : ~IsDeleted(files'[i].filename) ]_vars

(* the rows of table nearest to q, ascending by distance, rows of equal    *)
(* distance in storage order, cut to k                                     *)
StableTopK(table, q, k) ==
    LET n == Len(table)
        dist == [i \in 1..n |-> CosineDistance(table[i].embedding, q)]
        p == CHOOSE r \in Perms(n) :
                \A i, j \in 1..n : i < j =>
                    \/ DistLt(dist[r[i]], dist[r[j]])
                    \/ DistEq(dist[r[i]], dist[r[j]]) /\ r[i] < r[j]
    IN  [i \in 1..Min(k, n) |-> FileData(table[p[i]], q)]

Ascending(rows) ==
    \A i, j \in 1..Len(rows) : i < j => DistLeq(rows[i].similarity, rows[j].similarity)

(* C4: a helper that returns rows returns them ascending by distance with  *)
(* rows of equal distance in storage order, which makes the list a         *)
(* function of the table, the query vector and k.                          *)
C4_StableOrder ==
    fetched.status = "ok" =>
        /\ Ascending(fetched.rows)
        /\ fetched.rows = StableTopK(corpus, fetched.q, fetched.k)

(* C5: a query that reaches the store with a vector of the store's         *)
(* dimension is answered, with exactly min(k, N) rows, each a distinct row *)
(* of the table with its distance, and no row left out is nearer than a    *)
(* row returned.                                                           *)
C5_KBound ==
    /\ (fetched.helper \in {"query_service", "retriever"}
            /\ fetched.up /\ fetched.q.dim = D) => fetched.status = "ok"
    /\ fetched.status = "ok" =>
          LET rows == fetched.rows
              n == Len(corpus)
              returned == { rows[i].filename : i \in 1..Len(rows) }
          IN  /\ Len(rows) = Min(fetched.k, n)
              /\ Cardinality(returned) = Len(rows)
              /\ \A i \in 1..Len(rows) : \E j \in 1..n :
                    rows[i] = FileData(corpus[j], fetched.q)
              /\ \A j \in 1..n : corpus[j].filename \notin returned =>
                    \A i \in 1..Len(rows) :
                        DistLeq(rows[i].similarity,
                                CosineDistance(corpus[j].embedding, fetched.q))

(* k below the table size with rows at different distances, and k above it *)
C5_Witness ==
    /\ fetched.status = "ok"
    /\ Len(corpus) = 2
    /\ fetched.k = 1
    /\ Len(fetched.rows) = 1
    /\ \E j \in 1..2 : DistLt(fetched.rows[1].similarity,
                             CosineDistance(corpus[j].embedding, fetched.q))

(* C6: a vector from the provider whose length is not D never reaches the  *)
(* store or the language model; the invocation fails with                  *)
(* DimensionMismatch.                                                      *)
C6_DimensionMismatch ==
    (embedResp.status = 200 /\ embedResp.embedding.dim # D) =>
        /\ StageCount("search") = 0
        /\ StageCount("llm") = 0
        /\ pc \in {"done", "failed"} => exc = "DimensionMismatch"

-----------------------------------------------------------------------------
(* Properties of context assembly and answer generation *)

EntryLen(f) == Len(f.filename) + 2 + Len(f.content)

(* position in the context at which entry i begins *)
RECURSIVE EntryStart(_, _)
EntryStart(fs, i) ==
    IF i = 1 THEN 1 ELSE EntryStart(fs, i - 1) + EntryLen(fs[i - 1]) + 2

(* C7: once assembled, the context holds, for every entry of the match     *)
(* list in list order, the filename, ":", a newline and the content, two   *)
(* newlines between consecutive entries, and nothing else; for the empty   *)
(* list it is the empty text.                                              *)
C7_ContextLayout ==
    Len(trace) >= 3 =>
        LET n == Len(files) IN
        /\ n = 0 => context = <<>>
        /\ n > 0 => Len(context) = EntryStart(files, n) + EntryLen(files[n]) - 1
        /\ \A i \in 1..n :
              LET s == EntryStart(files, i)
                  f == files[i]
                  c == s + Len(f.filename)
              IN  /\ SubSeq(context, s, c - 1) = f.filename
                  /\ context[c] = ":"
                  /\ context[c + 1] = "\n"
                  /\ SubSeq(context, c + 2, c + 1 + Len(f.content)) = f.content
                  /\ i < n => /\ context[s + EntryLen(f)] = "\n"
                              /\ context[s + EntryLen(f) + 1] = "\n"

(* two different entries have been assembled *)
C7_Witness ==
    /\ pc = "generate"
    /\ Len(files) = 2
    /\ files[1].filename # files[2].filename
    /\ context # <<>>

(* C8: with no matches the context is empty, the language model is still   *)
(* called once with the empty context and the prompt, and unless that call *)
(* itself raises the caller gets status 200 with an empty match list and   *)
(* the text of the model, whatever it is.                                  *)
C8_EmptyContextStillAsks ==
    (files = <<>> /\ Len(trace) >= 3) =>
        /\ context = <<>>
        /\ pc \in {"done", "failed"} =>
              /\ StageCount("llm") = 1
              /\ trace[4].arg.context = <<>>
              /\ trace[4].arg.question = prompt
              /\ \/ /\ pc = "done"
                    /\ exc = "none"
                    /\ response = [status |-> 200, matches |-> <<>>,
                                   answer |-> answer]
                 \/ /\ pc = "failed"
                    /\ exc = "LLMConnectError"

(* the table is empty and the model answers with the empty text *)
C8_Witness ==
    /\ pc = "done"
    /\ corpus = <<>>
    /\ files = <<>>
    /\ StageCount("llm") = 1
    /\ response = [status |-> 200, matches |-> <<>>, answer |-> <<>>]

-----------------------------------------------------------------------------
(* Properties of the embedding endpoint and of the query entry point *)

(* the endpoint has answered the request of this invocation *)
Embedded == embedResp # NoResponse

(* C9 as stated: status 400 "No text provided" without a model call        *)
(* exactly for the empty text; every other text goes to the model once and *)
(* is answered with status 200 and a vector.                               *)
C9_RejectsOnlyEmpty ==
    Embedded =>
        /\ prompt = <<>> <=> embedResp.status = 400
        /\ embedResp.status = 400 =>
              /\ embedResp.detail = "No text provided"
              /\ encodeCalls = 0
        /\ prompt # <<>> =>
              /\ encodeCalls = 1
              /\ embedResp.status = 200
              /\ "embedding" \in DOMAIN embedResp

(* C9 amended: status 400 "No text provided" without a model call exactly  *)
(* for the empty text; every other text goes to the model once and is      *)
(* answered with status 200 and a vector, or with status 500 when the      *)
(* model call raises.                                                      *)
C9_RejectsOnlyEmptyOrModelError ==
    Embedded =>
        /\ prompt = <<>> <=> embedResp.status = 400
        /\ embedResp.status = 400 =>
              /\ embedResp.detail = "No text provided"
              /\ encodeCalls = 0
        /\ prompt # <<>> =>
              /\ encodeCalls = 1
              /\ embedResp.status \in {200, 500}
              /\ embedResp.status = 200 => "embedding" \in DOMAIN embedResp
              /\ embedResp.status = 500 => "embedding" \notin DOMAIN embedResp

(* a text of blanks only has been embedded *)
C9_Witness ==
    /\ Embedded
    /\ prompt = <<" ">>
    /\ embedResp.status = 200
    /\ encodeCalls = 1

(* C10: a query with an empty prompt, which the provider rejects with      *)
(* status 400, fails with a 4xx status and the detail "No text provided"   *)
(* without a call of the language model, while an unreachable or erroring  *)
(* provider or language model gives a 5xx.                                 *)
C10_EmptyPromptIsClientError ==
    pc = "failed" =>
        /\ (prompt = <<>> /\ embedResp.status = 400) =>
              /\ response.status \in 400..499
              /\ response.detail = "No text provided"
              /\ StageCount("llm") = 0
        /\ (prompt # <<>> /\ exc \in {"ConnectError", "HTTPStatusError",
                                     "LLMConnectError"}) =>
              response.status \in 500..599

-----------------------------------------------------------------------------
(* Outbound calls that get no response *)

(* client.post of get_embedding gets no response: the HTTP client is built *)
(* without a timeout argument, so its default timeout ends the wait with   *)
(* ReadTimeout, which leaves the route unhandled                           *)
EmbedNoResponse ==
    /\ pc = "embed"
    /\ trace' = Append(trace, [stage |-> "embed", arg |-> prompt])
    /\ Unhandled("ReadTimeout")
    /\ UNCHANGED <<corpus, prompt, embedding, files, context, answer,
                   embedResp, encodeCalls, fetched, auxVars>>

(* db.execute gets no response: the engine is created with no connect or   *)
(* statement timeout, so the call does not return                          *)
StoreNoResponse ==
    /\ pc = "search"
    /\ trace' = Append(trace, [stage |-> "search", arg |-> embedding])
    /\ pc' = "blocked"
    /\ UNCHANGED <<corpus, prompt, embedding, files, context, answer, response,
                   exc, embedResp, encodeCalls, fetched, auxVars>>

(* chain.invoke gets no response: OllamaLLM is built with model, base_url  *)
(* and temperature only, no timeout, so the call does not return           *)
LLMNoResponse ==
    /\ pc = "generate"
    /\ trace' = Append(trace, [stage |-> "llm",
                               arg |-> [context |-> context, question |-> prompt,
                                        text |-> qa_template(context, prompt)]])
    /\ pc' = "blocked"
    /\ UNCHANGED <<corpus, prompt, embedding, files, context, answer, response,
                   exc, embedResp, encodeCalls, fetched, auxVars>>

(* the steps of one pipeline execution *)
PipelineStep ==
    \/ \E r \in BOOLEAN, enc \in EncodeOutcomes : GetEmbedding(r, enc)
    \/ \E up \in BOOLEAN : FetchSimilar(up)
    \/ Assemble
    \/ \E up \in BOOLEAN, t \in Answers : Generate(up, t)
    \/ EmbedNoResponse
    \/ StoreNoResponse
    \/ LLMNoResponse

NextLive ==
    \/ \E doc \in Docs, emb \in StoreVecs : Ingest(doc, emb)
    \/ \E i \in 1..MaxFiles : SoftDelete(i)
    \/ \E i \in 1..MaxFiles : Restore(i)
    \/ \E p \in Prompts : Start(p)
    \/ \E r \in BOOLEAN, enc \in EncodeOutcomes : GetEmbedding(r, enc)
    \/ \E up \in BOOLEAN : FetchSimilar(up)
    \/ Assemble
    \/ \E up \in BOOLEAN, t \in Answers : Generate(up, t)
    \/ EmbedNoResponse
    \/ StoreNoResponse
    \/ LLMNoResponse

(* a started execution is run on whenever it can take a step *)
SpecLive == Init /\ [][NextLive]_vars /\ WF_vars(PipelineStep)

InFlight == pc \notin {"idle", "done", "failed"}

(* C11: every started execution ends, with a result or with an error, also *)
(* when a service it calls never responds.                                 *)
C11_EventuallyTerminates == InFlight ~> (pc \in {"done", "failed"})

(* C13: a step of the pipeline, whether it succeeds or raises, leaves      *)
(* every stored record as it was.                                          *)
C13_PipelineReadOnly ==
    [][ pipelineVars' # pipelineVars => corpus' = corpus ]_vars

(* an execution has run to its end, and another has failed, over a table   *)
(* that holds records                                                      *)
C13_Witness ==
    /\ pc \in {"done", "failed"}
    /\ Len(trace) >= 2
    /\ corpus # <<>>

-----------------------------------------------------------------------------
(* File operations: upload, update, delete, soft-delete, restore, recycle  *)
(* bin.  The services call the document backend over HTTP; a file id is    *)
(* the position of the record in the table.                                *)

ALLOWED == { ".txt", ".md", ".pdf" }

(* files a client uploads: the last element of the filename is its suffix *)
Uploads == { [filename |-> <<"a", ".txt">>, content |-> <<"x">>],
             [filename |-> <<"b", ".PDF">>, content |-> <<"z">>],
             [filename |-> <<"d", ".md">>, content |-> <<>>],
             [filename |-> <<"c", ".exe">>, content |-> <<"y">>] }

(* statuses the backend answers with *)
BackendStatuses == { 200, 404, 500 }

(* str.lower() on the suffixes in use *)
Lower(sfx) == IF sfx = ".PDF" THEN ".pdf" ELSE sfx

(* Path(file.filename).suffix.lower() *)
Suffix(filename) == Lower(filename[Len(filename)])

Remove(seq, i) == [j \in 1..(Len(seq) - 1) |-> IF j < i THEN seq[j] ELSE seq[j + 1]]

(* the steps of upload_file_service and update_file_service up to the      *)
(* backend request: what was called, the status of an HTTPException the    *)
(* code raised itself, the exception that reached the except clauses, and  *)
(* the embedding                                                           *)
Prepare(file, convOk, reachable, enc) ==
    IF Suffix(file.filename) \notin ALLOWED
    THEN [calls |-> <<>>, raised |-> 400, error |-> "HTTPException",
          embedding |-> NoVec]
    ELSE IF ~convOk
    THEN [calls |-> <<"to_text">>, raised |-> 0, error |-> "Exception",
          embedding |-> NoVec]
    ELSE IF ~reachable
    THEN [calls |-> <<"to_text", "embed_text">>, raised |-> 0,
          error |-> "RequestError", embedding |-> NoVec]
    ELSE LET r == embed(file.content, enc) IN
         IF r.status # 200
         THEN [calls |-> <<"to_text", "embed_text">>, raised |-> 0,
               error |-> "HTTPStatusError", embedding |-> NoVec]
         ELSE [calls |-> <<"to_text", "embed_text">>, raised |-> 0,
               error |-> "none", embedding |-> r.embedding]

(* except httpx.RequestError -> 502; except Exception -> 500, which also   *)
(* catches the HTTPException raised inside the try block                   *)
ExceptClauses(error, raised) ==
    IF error = "RequestError" THEN 502 ELSE 500

(* the backend answers 200 only to a request it can carry out *)
CanStore(name, emb, except) ==
    /\ emb.dim = D
    /\ \A j \in 1..Len(corpus) : j # except => corpus[j].filename # name

(* upload_file_service(file) *)
UploadFile(file, convOk, reachable, enc, backendUp, s) ==
    LET pre == Prepare(file, convOk, reachable, enc) IN
    /\ IF pre.error # "none"
       THEN /\ fileResp' = [op |-> "upload", suffix |-> Suffix(file.filename),
                            backend |-> 0, raised |-> pre.raised,
                            status |-> ExceptClauses(pre.error, pre.raised),
                            calls |-> pre.calls]
            /\ UNCHANGED corpus
       ELSE IF ~backendUp
       THEN /\ fileResp' = [op |-> "upload", suffix |-> Suffix(file.filename),
                            backend |-> 0, raised |-> 0,
                            status |-> ExceptClauses("RequestError", 0),
                            calls |-> Append(pre.calls, "backend")]
            /\ UNCHANGED corpus
       ELSE IF s # 200
       THEN /\ fileResp' = [op |-> "upload", suffix |-> Suffix(file.filename),
                            backend |-> s, raised |-> 0,
                            status |-> ExceptClauses("HTTPStatusError", 0),
                            calls |-> Append(pre.calls, "backend")]
            /\ UNCHANGED corpus
       ELSE /\ Len(corpus) < MaxFiles
            /\ CanStore(file.filename, pre.embedding, 0)
            /\ corpus' = Append(corpus, [filename |-> file.filename,
                                         content |-> file.content,
                                         embedding |-> pre.embedding,
                                         deleted |-> FALSE])
            /\ fileResp' = [op |-> "upload", suffix |-> Suffix(file.filename),
                            backend |-> 200, raised |-> 0, status |-> 200,
                            calls |-> Append(pre.calls, "backend")]
    /\ UNCHANGED <<pipelineVars, fetched, loop, reqs>>

(* update_file_service(file_id, file) *)
UpdateFile(id, file, convOk, reachable, enc, backendUp, s) ==
    LET pre == Prepare(file, convOk, reachable, enc) IN
    /\ IF pre.error # "none"
       THEN /\ fileResp' = [op |-> "update", suffix |-> Suffix(file.filename),
                            backend |-> 0, raised |-> pre.raised,
                            status |-> ExceptClauses(pre.error, pre.raised),
                            calls |-> pre.calls]
            /\ UNCHANGED corpus
       ELSE IF ~backendUp
       THEN /\ fileResp' = [op |-> "update", suffix |-> Suffix(file.filename),
                            backend |-> 0, raised |-> 0,
                            status |-> ExceptClauses("RequestError", 0),
                            calls |-> Append(pre.calls, "backend")]
            /\ UNCHANGED corpus
       ELSE IF s # 200
       THEN /\ fileResp' = [op |-> "update", suffix |-> Suffix(file.filename),
                            backend |-> s, raised |-> s,
                            status |-> ExceptClauses("HTTPException", s),
                            calls |-> Append(pre.calls, "backend")]
            /\ UNCHANGED corpus
       ELSE /\ id \in 1..Len(corpus)
            /\ CanStore(file.filename, pre.embedding, id)
            /\ corpus' = [corpus EXCEPT ![id] =
                             [filename |-> file.filename,
                              content |-> file.content,
                              embedding |-> pre.embedding,
                              deleted |-> corpus[id].deleted]]
            /\ fileResp' = [op |-> "update", suffix |-> Suffix(file.filename),
                            backend |-> 200, raised |-> 0, status |-> 200,
                            calls |-> Append(pre.calls, "backend")]
    /\ UNCHANGED <<pipelineVars, fetched, loop, reqs>>

(* the body shared by delete_file_service, soft_delete_file_service,       *)
(* restore_file_service and get_soft_deleted_files_service: 200 returns,   *)
(* any other status is raised as HTTPException(status_code) and only       *)
(* httpx.RequestError is caught, as 500                                    *)
BackendCall(op, backendUp, s) ==
    IF ~backendUp
    THEN [op |-> op, suffix |-> "", backend |-> 0, raised |-> 0,
          status |-> 500, calls |-> <<"backend">>]
    ELSE IF s = 200
    THEN [op |-> op, suffix |-> "", backend |-> 200, raised |-> 0,
          status |-> 200, calls |-> <<"backend">>]
    ELSE [op |-> op, suffix |-> "", backend |-> s, raised |-> s,
          status |-> s, calls |-> <<"backend">>]

(* delete_file_service(file_id) *)
DeleteFile(id, backendUp, s) ==
    /\ fileResp' = BackendCall("delete", backendUp, s)
    /\ IF backendUp /\ s = 200
       THEN /\ id \in 1..Len(corpus)
            /\ corpus' = Remove(corpus, id)
       ELSE UNCHANGED corpus
    /\ UNCHANGED <<pipelineVars, fetched, loop, reqs>>

(* soft_delete_file_service(file_id) *)
SoftDeleteFile(id, backendUp, s) ==
    /\ fileResp' = BackendCall("soft-delete", backendUp, s)
    /\ IF backendUp /\ s = 200
       THEN /\ id \in 1..Len(corpus)
            /\ ~corpus[id].deleted
            /\ corpus' = [corpus EXCEPT ![id].deleted = TRUE]
       ELSE UNCHANGED corpus
    /\ UNCHANGED <<pipelineVars, fetched, loop, reqs>>

(* restore_file_service(file_id) *)
RestoreFile(id, backendUp, s) ==
    /\ fileResp' = BackendCall("restore", backendUp, s)
    /\ IF backendUp /\ s = 200
       THEN /\ id \in 1..Len(corpus)
            /\ corpus[id].deleted
            /\ corpus' = [corpus EXCEPT ![id].deleted = FALSE]
       ELSE UNCHANGED corpus
    /\ UNCHANGED <<pipelineVars, fetched, loop, reqs>>

(* get_soft_deleted_files_service() *)
RecycleBin(backendUp, s) ==
    /\ fileResp' = BackendCall("recycle-bin", backendUp, s)
    /\ UNCHANGED <<corpus, pipelineVars, fetched, loop, reqs>>

NextFiles ==
    \/ \E file \in Uploads, convOk, reachable, backendUp \in BOOLEAN,
          enc \in EncodeOutcomes, s \in BackendStatuses :
            UploadFile(file, convOk, reachable, enc, backendUp, s)
    \/ \E id \in 1..MaxFiles, file \in Uploads,
          convOk, reachable, backendUp \in BOOLEAN,
          enc \in EncodeOutcomes, s \in BackendStatuses :
            UpdateFile(id, file, convOk, reachable, enc, backendUp, s)
    \/ \E id \in 1..MaxFiles, backendUp \in BOOLEAN, s \in BackendStatuses :
            DeleteFile(id, backendUp, s)
    \/ \E id \in 1..MaxFiles, backendUp \in BOOLEAN, s \in BackendStatuses :
            SoftDeleteFile(id, backendUp, s)
    \/ \E id \in 1..MaxFiles, backendUp \in BOOLEAN, s \in BackendStatuses :
            RestoreFile(id, backendUp, s)
    \/ \E backendUp \in BOOLEAN, s \in BackendStatuses : RecycleBin(backendUp, s)

SpecFiles == Init /\ [][NextFiles]_vars

(* C14: an error the file operations raise with a status code reaches the  *)
(* caller with that status: an unsupported suffix on upload or update      *)
(* gives 400 with nothing called, and a backend answer s other than 200    *)
(* gives s.                                                                *)
C14_StatusPreserved ==
    fileResp.op # "none" =>
        /\ fileResp.raised # 0 => fileResp.status = fileResp.raised
        /\ (fileResp.op \in {"upload", "update"}
                /\ fileResp.suffix \notin ALLOWED) =>
              /\ fileResp.status = 400
              /\ fileResp.calls = <<>>
        /\ fileResp.backend \notin {0, 200} => fileResp.status = fileResp.backend

-----------------------------------------------------------------------------
(* Two query requests in one server process.  query_route is a coroutine   *)
(* on the event loop of the process: loop is the request whose handler     *)
(* occupies the loop's thread, 0 when the loop is free to run another.     *)
(* `await client.post` suspends the handler and frees the loop;            *)
(* db.execute and chain.invoke are plain calls that return only with the   *)
(* answer, and `await fetch_similar_files_pgvector(...)` runs a coroutine  *)
(* that never suspends.                                                    *)

(* the tables the requests run against *)
ConcTables == { t \in Tables : Len(t) <= 1 }

(* POST /file/query arrives: the handler runs to `await client.post` *)
Arrive(r, p) ==
    /\ reqs[r].pc = "none"
    /\ loop = 0
    /\ reqs' = [reqs EXCEPT ![r] = [NoReq EXCEPT !.pc = "awaitEmbed",
                                                 !.prompt = p]]
    /\ UNCHANGED <<corpus, pipelineVars, fetched, fileResp, loop>>

(* the embedding request completes, or fails to connect *)
EmbedResponds(r, reachable, enc) ==
    /\ reqs[r].pc = "awaitEmbed"
    /\ reqs' = [reqs EXCEPT ![r].pc = "ready",
                            ![r].embedded =
                                IF reachable THEN embed(reqs[r].prompt, enc)
                                ELSE NoResponse]
    /\ UNCHANGED <<corpus, pipelineVars, fetched, fileResp, loop>>

(* the loop resumes the handler: raise_for_status, then the handler goes   *)
(* into db.execute                                                         *)
Resume(r) ==
    /\ reqs[r].pc = "ready"
    /\ loop = 0
    /\ IF reqs[r].embedded.status # 200
       THEN /\ reqs' = [reqs EXCEPT ![r].pc = "failed", ![r].status = 500]
            /\ UNCHANGED loop
       ELSE /\ reqs' = [reqs EXCEPT ![r].pc = "inStore"]
            /\ loop' = r
    /\ UNCHANGED <<corpus, pipelineVars, fetched, fileResp>>

(* db.execute returns or raises; with rows the handler assembles the       *)
(* context and goes into chain.invoke                                      *)
StoreResponds(r, up) ==
    /\ reqs[r].pc = "inStore"
    /\ IF ~up \/ DimensionError(corpus, reqs[r].embedded.embedding)
       THEN /\ reqs' = [reqs EXCEPT ![r].pc = "failed", ![r].status = 500]
            /\ loop' = 0
       ELSE /\ \E rows \in SelectOrderByLimit(corpus, reqs[r].embedded.embedding,
                                              DefaultTopK) :
                 reqs' = [reqs EXCEPT ![r].pc = "inLLM", ![r].files = rows]
            /\ UNCHANGED loop
    /\ UNCHANGED <<corpus, pipelineVars, fetched, fileResp>>

(* chain.invoke returns or raises; the handler returns its response *)
LLMResponds(r, up, text) ==
    /\ reqs[r].pc = "inLLM"
    /\ IF ~up
       THEN reqs' = [reqs EXCEPT ![r].pc = "failed", ![r].status = 500]
       ELSE reqs' = [reqs EXCEPT ![r].pc = "done", ![r].status = 200,
                                 ![r].answer = text]
    /\ loop' = 0
    /\ UNCHANGED <<corpus, pipelineVars, fetched, fileResp>>

InitConc ==
    /\ corpus \in ConcTables
    /\ pc = "idle"
    /\ prompt = <<>>
    /\ embedding = NoVec
    /\ files = <<>>
    /\ context = <<>>
    /\ answer = <<>>
    /\ response = NoResponse
    /\ trace = <<>>
    /\ exc = "none"
    /\ embedResp = NoResponse
    /\ encodeCalls = 0
    /\ fetched = NoFetch
    /\ fileResp = NoFileResp
    /\ loop = 0
    /\ reqs = [r \in Reqs |-> NoReq]

NextConc ==
    \/ \E r \in Reqs, p \in Prompts : Arrive(r, p)
    \/ \E r \in Reqs, reachable \in BOOLEAN, enc \in EncodeOutcomes :
            EmbedResponds(r, reachable, enc)
    \/ \E r \in Reqs : Resume(r)
    \/ \E r \in Reqs, up \in BOOLEAN : StoreResponds(r, up)
    \/ \E r \in Reqs, up \in BOOLEAN, t \in Answers : LLMResponds(r, up, t)

SpecConc == InitConc /\ [][NextConc]_vars

(* the handler of request r is waiting for the answer to an outbound call *)
Waiting(r) == reqs[r].pc \in {"awaitEmbed", "inStore", "inLLM"}

(* C12: an execution that waits for its embedding, store or language-model *)
(* call leaves the event loop free, so that the other request can be       *)
(* started or resumed; and the matches an execution returns are rows of    *)
(* the query for its own vector.                                           *)
C12_Independent ==
    \A r \in Reqs :
        /\ Waiting(r) => loop # r
        /\ \A o \in Reqs \ {r} :
              (Waiting(r) /\ reqs[o].pc \in {"none", "ready"}) => loop = 0
        /\ reqs[r].pc = "done" =>
              reqs[r].files \in SelectOrderByLimit(corpus,
                                    reqs[r].embedded.embedding, DefaultTopK)

====
